---- MODULE Spec2Model ----
(***************************************************************************)
(* figmaui2html.py: a design-document tree is fetched from the design-file *)
(* service, rendered to markup by the recursive process_node, and written  *)
(* once to output.html.                                                    *)
(*                                                                         *)
(* Python dicts are functions whose DOMAIN is the set of keys present.     *)
(* Python strings are sequences of tokens, one token per fragment an       *)
(* f-string produces:                                                      *)
(*    <<"lit", s>>        a literal fragment of markup                     *)
(*    <<"decl", p, v>>    the style declaration  p:v;                      *)
(*    <<"val", s>>        a formatted value (the src of an image)          *)
(*    <<"char", c>>       one character of a TEXT node's `characters`      *)
(* The string is the concatenation of the tokens' texts.                   *)
(***************************************************************************)
EXTENDS Integers, Sequences, FiniteSets, TLC

(***************************************************************************)
(* Bounds of the model.                                                    *)
(***************************************************************************)
\* largest number of nodes of a generated multi-node tree
MaxNodes == 3

(***************************************************************************)
(* Dict helpers.                                                           *)
(***************************************************************************)
EmptyDict == [k \in {} |-> 0]

\* d.get(k, default); Python's None is written "None", as an f-string prints it
Get(d, k, default) == IF k \in DOMAIN d THEN d[k] ELSE default

\* str(v) of a JSON integer
Str(n) == ToString(n)

\* a result of an expression that may raise: err = "" when it returned
Ok(v) == [err |-> "", val |-> v]
Raise(e) == [err |-> e, val |-> <<>>]

\* the declaration  p:v  followed by its terminator ("; ", or ";" for the last
\* declaration of a paragraph)
DeclT(p, v, end) == <<"decl", p, v, end>>
Decl(p, v) == DeclT(p, v, "; ")
Lit(s) == <<"lit", s>>
Val(s) == <<"val", s>>
Char(c) == <<"char", c>>

\* str.lower() on the alignment keywords of the design-file service
Lower(s) ==
    CASE s = "MIN" -> "min"
      [] s = "MAX" -> "max"
      [] s = "CENTER" -> "center"
      [] s = "SPACE_BETWEEN" -> "space_between"
      [] OTHER -> s

(***************************************************************************)
(* rgba_from_fill.  A colour channel in [0,1] is held in tenths; Python's  *)
(* int(c * 255) truncates, which on tenths is (k * 255) \div 10.  opacity  *)
(* is a string as Python formats it ("0.5"); the default is the int 1.     *)
(***************************************************************************)
Channel(k) == (k * 255) \div 10

rgba_from_fill(fill) ==
    IF Get(fill, "type", "None") = "SOLID"
    THEN IF "color" \notin DOMAIN fill
         THEN Raise("KeyError")
         ELSE LET c == fill["color"] IN
              IF {"r", "g", "b"} \subseteq DOMAIN c
              THEN Ok("rgba(" \o Str(Channel(c["r"])) \o "," \o Str(Channel(c["g"]))
                      \o "," \o Str(Channel(c["b"])) \o "," \o Get(fill, "opacity", "1")
                      \o ")")
              ELSE Raise("KeyError")
    ELSE Ok("")

(***************************************************************************)
(* process_node, lines 45-101: the style string, one rule group at a time. *)
(***************************************************************************)
\* 1) position and size
PositionCss(node) ==
    IF "absoluteBoundingBox" \in DOMAIN node
    THEN LET bb == node["absoluteBoundingBox"] IN
         IF {"x", "y", "width", "height"} \subseteq DOMAIN bb
         THEN Ok(<< Decl("position", "absolute"),
                    Decl("left", Str(bb["x"]) \o "px"),
                    Decl("top", Str(bb["y"]) \o "px"),
                    Decl("width", Str(bb["width"]) \o "px"),
                    Decl("height", Str(bb["height"]) \o "px") >>)
         ELSE Raise("KeyError")
    ELSE Ok(<<>>)

\* 2) auto layout
LayoutCss(node) ==
    IF "layoutMode" \in DOMAIN node /\ node["layoutMode"] # ""
    THEN LET mode == node["layoutMode"] IN
         << Decl("display", "flex"),
            Decl("flex-direction", IF mode = "HORIZONTAL" THEN "row" ELSE "column"),
            Decl("gap", Str(Get(node, "itemSpacing", 0)) \o "px"),
            Decl("padding", Str(Get(node, "paddingTop", 0)) \o "px "
                            \o Str(Get(node, "paddingRight", 0)) \o "px "
                            \o Str(Get(node, "paddingBottom", 0)) \o "px "
                            \o Str(Get(node, "paddingLeft", 0)) \o "px"),
            Decl("align-items", Lower(Get(node, "primaryAxisAlignItems", "MIN"))),
            Decl("justify-content", Lower(Get(node, "counterAxisAlignItems", "MIN"))) >>
    ELSE <<>>

\* variant: else in place of elif, any other value handled as CENTER
ConstraintsCssElse(node) ==
    LET cons == Get(node, "constraints", EmptyDict)
        h == Get(cons, "horizontal", "None")
        v == Get(cons, "vertical", "None")
    IN  (IF h = "STRETCH" THEN << Decl("width", "100%") >>
         ELSE << Decl("margin-left", "auto"), Decl("margin-right", "auto") >>)
        \o
        (IF v = "STRETCH" THEN << Decl("height", "100%") >>
         ELSE << Decl("margin-top", "auto"), Decl("margin-bottom", "auto") >>)

\* 3) constraints
ConstraintsCss(node) ==
    LET cons == Get(node, "constraints", EmptyDict)
        h == Get(cons, "horizontal", "None")
        v == Get(cons, "vertical", "None")
    IN  (IF h = "STRETCH" THEN << Decl("width", "100%") >>
         ELSE IF h = "CENTER"
              THEN << Decl("margin-left", "auto"), Decl("margin-right", "auto") >>
              ELSE <<>>)
        \o
        (IF v = "STRETCH" THEN << Decl("height", "100%") >>
         ELSE IF v = "CENTER"
              THEN << Decl("margin-top", "auto"), Decl("margin-bottom", "auto") >>
              ELSE <<>>)

\* 4) layout grid; g.get('count') of an absent count is None, formatted "None"
GridCss(node) ==
    LET grids == Get(node, "layoutGrids", <<>>) IN
    IF grids # <<>>
    THEN LET g == grids[1] IN
         IF Get(g, "pattern", "None") = "COLUMNS"
         THEN << Decl("display", "grid"),
                 Decl("grid-template-columns",
                      " repeat(" \o (IF "count" \in DOMAIN g THEN Str(g["count"]) ELSE "None")
                      \o ", 1fr)"),
                 Decl("column-gap", " " \o Str(Get(g, "gutterSize", 0)) \o "px") >>
         ELSE <<>>
    ELSE <<>>

\* node.get("fills") or []
Fills(node) == Get(node, "fills", <<>>)

\* variant: the background rule without the test of the type
FillCssAnyType(node) ==
    LET fills == Fills(node) IN
    IF fills # <<>>
    THEN LET color_str == rgba_from_fill(fills[1]) IN
         IF color_str.err # "" THEN color_str
         ELSE IF color_str.val # ""
              THEN Ok(<< Decl("background-color", " " \o color_str.val) >>)
              ELSE Ok(<<>>)
    ELSE Ok(<<>>)

\* 5) background colour, for every type but TEXT
FillCss(node) ==
    IF Get(node, "type", "None") # "TEXT"
    THEN LET fills == Fills(node) IN
         IF fills # <<>>
         THEN LET color_str == rgba_from_fill(fills[1]) IN
              IF color_str.err # "" THEN color_str
              ELSE IF color_str.val # ""
                   THEN Ok(<< Decl("background-color", " " \o color_str.val) >>)
                   ELSE Ok(<<>>)
         ELSE Ok(<<>>)
    ELSE Ok(<<>>)

\* variant: the grid rule applied before the auto-layout rule
CssGridFirst(node) ==
    LET p == PositionCss(node)
        f == FillCss(node)
    IN  IF p.err # "" THEN p
        ELSE IF f.err # "" THEN f
        ELSE Ok(p.val \o GridCss(node) \o LayoutCss(node) \o ConstraintsCss(node) \o f.val)

\* lines 45-101: css, the groups appended in the order of the code
Css(node) ==
    LET p == PositionCss(node)
        f == FillCss(node)
    IN  IF p.err # "" THEN p
        ELSE IF f.err # "" THEN f
        ELSE Ok(p.val \o LayoutCss(node) \o ConstraintsCss(node) \o GridCss(node) \o f.val)

(***************************************************************************)
(* process_node, lines 104-121: the node's own element.                    *)
(***************************************************************************)
\* the characters of a Python string, inserted verbatim by the f-string
Chars(str) == [i \in 1..Len(str) |-> Char(str[i])]

\* variant: the general color rule, empty for a fill that is not SOLID
TextColorGeneral(node) ==
    LET fills == Fills(node) IN
    IF fills # <<>> THEN rgba_from_fill(fills[1]) ELSE Ok("black")

\* lines 104-116
TextColor(node) ==
    LET fills == Fills(node) IN
    IF fills # <<>> /\ Get(fills[1], "type", "None") = "SOLID"
    THEN rgba_from_fill(fills[1])
    ELSE Ok("black")

TextElement(node, css) ==
    LET style == Get(node, "style", EmptyDict)
        size == Get(style, "fontSize", 12)
        text_color == TextColor(node)
    IN  IF text_color.err # "" THEN text_color
        ELSE Ok(<< Lit("<p style=\"") >> \o css
                \o << Decl("font-size", Str(size) \o "px"),
                      DeclT("color", text_color.val, ";"),
                      Lit("\">") >>
                \o Chars(Get(node, "characters", <<>>))
                \o << Lit("</p>") >>)

\* line 119
ImageElement(src, css) ==
    << Lit("<img src=\""), Val(src), Lit("\" style=\"") >> \o css \o << Lit("\" />") >>

\* line 121
DivElement(css) == << Lit("<div style=\"") >> \o css \o << Lit("\"></div>") >>

\* lines 133-143
FullHtml(body_html) ==
    << Lit("<!DOCTYPE html><html lang=\"en\"><head>...</head><body>") >>
    \o body_html \o << Lit("</body></html>") >>

(***************************************************************************)
(* The documents the design-file service may hold.                         *)
(***************************************************************************)
Box == [x |-> 10, y |-> 20, width |-> 100, height |-> 50]
Red == [type |-> "SOLID", color |-> [r |-> 10, g |-> 0, b |-> 0], opacity |-> "0.5"]
Black == [type |-> "SOLID", color |-> [r |-> 0, g |-> 0, b |-> 0]]
Grey == [type |-> "SOLID", color |-> [r |-> 7, g |-> 5, b |-> 1]]
NoColor == [type |-> "SOLID", opacity |-> "0.5"]
Gradient == [type |-> "GRADIENT_LINEAR"]

KindParts ==
    { EmptyDict, [type |-> "FRAME"], [type |-> "VECTOR"], [type |-> "IMAGE"],
      [type |-> "TEXT"],
      [type |-> "TEXT", characters |-> <<"<", "b", ">">>, style |-> [fontSize |-> 20]],
      [type |-> "TEXT", characters |-> <<"H", "i">>, style |-> EmptyDict] }
BoxParts ==
    { EmptyDict, [absoluteBoundingBox |-> Box],
      [absoluteBoundingBox |-> [y |-> 20, width |-> 100, height |-> 50]] }
LayoutParts ==
    { EmptyDict, [layoutMode |-> "VERTICAL"],
      [layoutMode |-> "HORIZONTAL", itemSpacing |-> 8, paddingTop |-> 4,
       paddingRight |-> 4, paddingBottom |-> 4, paddingLeft |-> 4,
       counterAxisAlignItems |-> "CENTER"] }
ConstraintParts ==
    { EmptyDict,
      [constraints |-> [horizontal |-> "STRETCH", vertical |-> "CENTER"]],
      [constraints |-> [horizontal |-> "CENTER", vertical |-> "STRETCH"]],
      [constraints |-> [horizontal |-> "LEFT", vertical |-> "TOP"]],
      [constraints |-> [vertical |-> "SCALE"]] }
GridParts ==
    { EmptyDict, [layoutGrids |-> <<>>],
      [layoutGrids |-> << [pattern |-> "COLUMNS", count |-> 3, gutterSize |-> 10] >>],
      [layoutGrids |-> << [pattern |-> "COLUMNS", gutterSize |-> 10] >>],
      [layoutGrids |-> << [pattern |-> "ROWS", count |-> 2] >>],
      [layoutGrids |-> << [pattern |-> "GRID"], [pattern |-> "COLUMNS", count |-> 2] >>] }
FillParts ==
    { EmptyDict, [fills |-> <<>>], [fills |-> << Red >>], [fills |-> << Grey >>],
      [fills |-> << NoColor >>], [fills |-> << Gradient >>],
      [fills |-> << Gradient, Black >>] }

\* every combination of the optional fields, as a document of one node
SingleNodes ==
    { k @@ b @@ l @@ c @@ g @@ f @@ [id |-> "1"] :
        k \in KindParts, b \in BoxParts, l \in LayoutParts,
        c \in ConstraintParts, g \in GridParts, f \in FillParts }

\* the nodes the multi-node trees are built from
Pool ==
    { [type |-> "FRAME", absoluteBoundingBox |-> Box, layoutMode |-> "VERTICAL"],
      [type |-> "TEXT", characters |-> <<"<", "b", ">">>, fills |-> << Black >>,
       style |-> [fontSize |-> 20]],
      [type |-> "TEXT", characters |-> <<"H", "i">>],
      [type |-> "IMAGE", absoluteBoundingBox |-> Box],
      [type |-> "FRAME", absoluteBoundingBox |-> [y |-> 20, width |-> 100, height |-> 50]],
      [type |-> "TEXT", fills |-> << NoColor >>] }

MkNode(p, b, f) ==
    p @@ [id |-> Str(b)] @@ (IF f = <<>> THEN EmptyDict ELSE [children |-> f])

RECURSIVE TreesOf(_, _), ForestsOf(_, _)
\* the trees of exactly n nodes over Pool, ids numbered in preorder from b
TreesOf(n, b) ==
    IF n = 0 THEN {}
    ELSE { MkNode(p, b, f) : p \in Pool, f \in ForestsOf(n - 1, b + 1) }
\* the sequences of trees of n nodes in all
ForestsOf(n, b) ==
    IF n = 0 THEN { <<>> }
    ELSE UNION { { <<t>> \o f : t \in TreesOf(k, b), f \in ForestsOf(n - k, b + k) } :
                 k \in 1..n }

Documents == SingleNodes \cup UNION { TreesOf(n, 1) : n \in 2..MaxNodes }

(***************************************************************************)
(* The run: __main__, generate_html and the call stack of process_node.    *)
(***************************************************************************)
VARIABLES
    document,   \* the tree the design-file service holds
    pc,         \* position of __main__: main, generate, render, write, done, aborted
    error,      \* the exception that ended the run, "" while none has
    stack,      \* the frames of process_node, innermost last
    requests,   \* the requests.get calls made so far, in order
    body_html,  \* generate_html's local: what process_node(doc_node) returned
    output,     \* the content of output.html
    writes      \* the number of times output.html was opened for writing

vars == << document, pc, error, stack, requests, body_html, output, writes >>

Init ==
    /\ document \in Documents
    /\ pc = "main"
    /\ error = ""
    /\ stack = <<>>
    /\ requests = <<>>
    /\ body_html = <<>>
    /\ output = <<>>
    /\ writes = 0

\* a new frame of process_node(node): css = "", html = ""  (lines 45-47)
Frame(node) == [node |-> node, css |-> <<>>, html |-> <<>>, at |-> "style", i |-> 1]

Top == stack[Len(stack)]
SetTop(f) == [stack EXCEPT ![Len(stack)] = f]

\* an exception nobody catches: the interpreter unwinds every frame and exits
Abort(e) ==
    /\ pc' = "aborted"
    /\ error' = e
    /\ stack' = <<>>

\* variant: no raise_for_status, the run goes on after a failed fetch
GetFileNodeUnchecked ==
    /\ pc = "main"
    /\ \E ok \in BOOLEAN :
         requests' = Append(requests,
             [endpoint |-> "files", ids |-> "", ok |-> ok, images |-> EmptyDict])
    /\ pc' = "generate"
    /\ UNCHANGED << document, error, stack, body_html, output, writes >>

\* lines 13-18 and 150
GetFileNode ==
    /\ pc = "main"
    /\ \E ok \in BOOLEAN :
         /\ requests' = Append(requests, [endpoint |-> "files", ids |-> "", ok |-> ok, images |-> EmptyDict])
         /\ IF ok
            THEN pc' = "generate" /\ UNCHANGED << error, stack >>
            ELSE Abort("HTTPError")
    /\ UNCHANGED << document, body_html, output, writes >>

\* lines 151 and 132: generate_html(doc) calls process_node(doc_node)
GenerateHtml ==
    /\ pc = "generate"
    /\ pc' = "render"
    /\ stack' = << Frame(document) >>
    /\ UNCHANGED << document, error, requests, body_html, output, writes >>

\* lines 45-101
SynthesizeStyle ==
    /\ pc = "render"
    /\ Top.at = "style"
    /\ LET css == Css(Top.node) IN
       IF css.err # ""
       THEN Abort(css.err)
       ELSE /\ stack' = SetTop([Top EXCEPT !.css = css.val, !.at = "emit"])
            /\ UNCHANGED << pc, error >>
    /\ UNCHANGED << document, requests, body_html, output, writes >>

\* lines 104-116
EmitText ==
    /\ pc = "render"
    /\ Top.at = "emit"
    /\ Get(Top.node, "type", "None") = "TEXT"
    /\ LET html == TextElement(Top.node, Top.css) IN
       IF html.err # ""
       THEN Abort(html.err)
       ELSE /\ stack' = SetTop([Top EXCEPT !.html = html.val, !.at = "children"])
            /\ UNCHANGED << pc, error >>
    /\ UNCHANGED << document, requests, body_html, output, writes >>

\* the responses of the images endpoint to a request for node_id: an HTTP
\* error status, or a body whose "images" maps some ids to URLs
ImageResponses(node_id) ==
    { [ok |-> FALSE, images |-> EmptyDict],
      [ok |-> TRUE, images |-> EmptyDict],
      [ok |-> TRUE, images |-> (node_id :> ("https://img/" \o node_id))],
      [ok |-> TRUE, images |-> ("0:0" :> "https://img/0:0")] }

\* variant: images[node_id] in place of images.get(node_id, "")
EmitImageIndexed ==
    /\ pc = "render"
    /\ Top.at = "emit"
    /\ Get(Top.node, "type", "None") = "IMAGE"
    /\ \E res \in ImageResponses(Top.node["id"]) :
         /\ requests' = Append(requests,
                [endpoint |-> "images", ids |-> Top.node["id"], ok |-> res.ok,
                 images |-> res.images])
         /\ IF ~res.ok
            THEN Abort("HTTPError")
            ELSE IF Top.node["id"] \notin DOMAIN res.images
                 THEN Abort("KeyError")
                 ELSE /\ stack' = SetTop([Top EXCEPT
                                 !.html = ImageElement(res.images[Top.node["id"]], Top.css),
                                 !.at = "children"])
                      /\ UNCHANGED << pc, error >>
    /\ UNCHANGED << document, body_html, output, writes >>

\* variant: a failed request is sent again instead of raising
EmitImageRetry ==
    /\ pc = "render"
    /\ Top.at = "emit"
    /\ Get(Top.node, "type", "None") = "IMAGE"
    /\ \E res \in ImageResponses(Top.node["id"]) :
         /\ requests' = Append(requests,
                [endpoint |-> "images", ids |-> Top.node["id"], ok |-> res.ok,
                 images |-> res.images])
         /\ IF ~res.ok
            THEN UNCHANGED << pc, error, stack >>
            ELSE LET src == Get(res.images, Top.node["id"], "") IN
                 /\ stack' = SetTop([Top EXCEPT !.html = ImageElement(src, Top.css),
                                                !.at = "children"])
                 /\ UNCHANGED << pc, error >>
    /\ UNCHANGED << document, body_html, output, writes >>

\* lines 117-119 with get_image_url, lines 21-27
EmitImage ==
    /\ pc = "render"
    /\ Top.at = "emit"
    /\ Get(Top.node, "type", "None") = "IMAGE"
    /\ \E res \in ImageResponses(Top.node["id"]) :
         /\ requests' = Append(requests,
                [endpoint |-> "images", ids |-> Top.node["id"], ok |-> res.ok,
                 images |-> res.images])
         /\ IF ~res.ok
            THEN Abort("HTTPError")
            ELSE LET src == Get(res.images, Top.node["id"], "") IN
                 /\ stack' = SetTop([Top EXCEPT !.html = ImageElement(src, Top.css),
                                                !.at = "children"])
                 /\ UNCHANGED << pc, error >>
    /\ UNCHANGED << document, body_html, output, writes >>

\* lines 120-121
EmitDiv ==
    /\ pc = "render"
    /\ Top.at = "emit"
    /\ Get(Top.node, "type", "None") \notin {"TEXT", "IMAGE"}
    /\ stack' = SetTop([Top EXCEPT !.html = DivElement(Top.css), !.at = "children"])
    /\ UNCHANGED << document, pc, error, requests, body_html, output, writes >>

Children(node) == Get(node, "children", <<>>)

\* lines 124-125: the call process_node(child) for the next child
CallChild ==
    /\ pc = "render"
    /\ Top.at = "children"
    /\ Top.i <= Len(Children(Top.node))
    /\ stack' = Append(stack, Frame(Children(Top.node)[Top.i]))
    /\ UNCHANGED << document, pc, error, requests, body_html, output, writes >>

\* variant: the child's markup put before the caller's
ResumePrepend(caller, returned) ==
    [caller EXCEPT !.html = returned \o caller.html, !.i = caller.i + 1]

\* the caller's  html += process_node(child)
Resume(caller, returned) ==
    [caller EXCEPT !.html = caller.html \o returned, !.i = caller.i + 1]

\* line 127: return html, to the caller's loop (line 125) or to
\* generate_html (line 132)
Return ==
    /\ pc = "render"
    /\ Top.at = "children"
    /\ Top.i > Len(Children(Top.node))
    /\ IF Len(stack) > 1
       THEN /\ stack' = [ SubSeq(stack, 1, Len(stack) - 1)
                            EXCEPT ![Len(stack) - 1] = Resume(stack[Len(stack) - 1], Top.html) ]
            /\ UNCHANGED << pc, body_html >>
       ELSE /\ stack' = <<>>
            /\ pc' = "write"
            /\ body_html' = Top.html
    /\ UNCHANGED << document, error, requests, output, writes >>

\* lines 133-146: the document shell around body_html, written to output.html
WriteOutput ==
    /\ pc = "write"
    /\ output' = FullHtml(body_html)
    /\ writes' = writes + 1
    /\ pc' = "done"
    /\ UNCHANGED << document, error, stack, requests, body_html >>

Next ==
    \/ GetFileNode
    \/ GenerateHtml
    \/ SynthesizeStyle
    \/ EmitText
    \/ EmitImage
    \/ EmitDiv
    \/ CallChild
    \/ Return
    \/ WriteOutput

Spec == Init /\ [][Next]_vars

(***************************************************************************)
(* Vocabulary of the properties.                                           *)
(***************************************************************************)
RECURSIVE Concat(_)
Concat(ss) == IF Len(ss) = 0 THEN <<>> ELSE Head(ss) \o Concat(Tail(ss))

TypeOf(node) == Get(node, "type", "None")

\* the nodes of a tree, depth first, a parent before its children
RECURSIVE Preorder(_)
Preorder(node) ==
    <<node>> \o Concat([j \in 1..Len(Children(node)) |-> Preorder(Children(node)[j])])

Nodes == Preorder(document)
Frames == { k \in 1..Len(stack) : TRUE }
Emitted == { k \in Frames : stack[k].at = "children" }
Styled == { k \in Frames : stack[k].at \in {"emit", "children"} }
Finished == pc \in {"write", "done"}

\* the source the images endpoint gave for a node id, "" when it gave none
SrcFor(id) ==
    LET ks == { k \in 1..Len(requests) :
                  /\ requests[k].endpoint = "images"
                  /\ requests[k].ids = id
                  /\ requests[k].ok
                  /\ id \in DOMAIN requests[k].images }
    IN  IF ks = {} THEN "" ELSE requests[CHOOSE k \in ks : TRUE].images[id]

\* the one element of a node, and the flat preorder listing of a tree
OwnElement(node) ==
    CASE TypeOf(node) = "TEXT" -> TextElement(node, Css(node).val).val
      [] TypeOf(node) = "IMAGE" -> ImageElement(SrcFor(node["id"]), Css(node).val)
      [] OTHER -> DivElement(Css(node).val)
Listing(node) ==
    Concat([j \in 1..Len(Preorder(node)) |-> OwnElement(Preorder(node)[j])])

OpenLits == { Lit("<p style=\""), Lit("<img src=\""), Lit("<div style=\"") }
EndLits == { Lit("</p>"), Lit("\" />"), Lit("\"></div>") }
OpenLitOf(node) ==
    CASE TypeOf(node) = "TEXT" -> Lit("<p style=\"")
      [] TypeOf(node) = "IMAGE" -> Lit("<img src=\"")
      [] OTHER -> Lit("<div style=\"")
OpenTags(html) == SelectSeq(html, LAMBDA t : t \in OpenLits)

\* the first element of a markup string, through its closing literal
OwnPart(html) ==
    LET ends == { i \in 1..Len(html) : html[i] \in EndLits }
    IN  SubSeq(html, 1, CHOOSE i \in ends : \A j \in ends : i <= j)
Decls(html) == SelectSeq(html, LAMBDA t : t[1] = "decl")
HasBackground(html) ==
    \E i \in 1..Len(html) : html[i][1] = "decl" /\ html[i][2] = "background-color"

FirstFillSolid(node) ==
    /\ "fills" \in DOMAIN node
    /\ Len(node["fills"]) > 0
    /\ "type" \in DOMAIN node["fills"][1]
    /\ node["fills"][1]["type"] = "SOLID"
FirstGridColumns(node) ==
    /\ "layoutGrids" \in DOMAIN node
    /\ Len(node["layoutGrids"]) > 0
    /\ "pattern" \in DOMAIN node["layoutGrids"][1]
    /\ node["layoutGrids"][1]["pattern"] = "COLUMNS"
Constraint(node, axis) ==
    IF "constraints" \in DOMAIN node /\ axis \in DOMAIN node["constraints"]
    THEN node["constraints"][axis] ELSE "None"

\* a field the rules require is missing
LacksBoxField(node) ==
    /\ "absoluteBoundingBox" \in DOMAIN node
    /\ ~({"x", "y", "width", "height"} \subseteq DOMAIN node["absoluteBoundingBox"])
LacksCount(node) ==
    FirstGridColumns(node) /\ "count" \notin DOMAIN node["layoutGrids"][1]
LacksColor(node) ==
    FirstFillSolid(node) /\ "color" \notin DOMAIN node["fills"][1]
LacksRequired(node) == LacksBoxField(node) \/ LacksCount(node) \/ LacksColor(node)
SomeNode(tree, P(_)) == \E j \in 1..Len(Preorder(tree)) : P(Preorder(tree)[j])

(***************************************************************************)
(* C1. process_node returns the node's own element followed by the         *)
(* renderings of its children's subtrees in input order, flat: while the   *)
(* loop over the children runs, html is the own element followed by the    *)
(* listings of the children already rendered, and what generate_html       *)
(* receives lists one element per node of the tree in depth-first          *)
(* preorder.                                                               *)
(***************************************************************************)
C1_PreorderListing ==
    /\ \A k \in Emitted :
         LET f == stack[k] IN
         f.html = OwnElement(f.node)
                  \o Concat([j \in 1..(f.i - 1) |-> Listing(Children(f.node)[j])])
    /\ Finished =>
         /\ body_html = Listing(document)
         /\ OpenTags(body_html) = [j \in 1..Len(Nodes) |-> OpenLitOf(Nodes[j])]

C1_Witness ==
    /\ pc = "done"
    /\ Len(Children(document)) = 2
    /\ TypeOf(document) = "FRAME"
    /\ TypeOf(Children(document)[1]) = "TEXT"
    /\ TypeOf(Children(document)[2]) = "IMAGE"

(***************************************************************************)
(* C2. A failed fetch aborts the run and output.html is never written: a   *)
(* failed document fetch is the only request of the run and nothing was    *)
(* rendered, a failed image fetch is the last request of the run, and      *)
(* output.html is written once, after the whole tree was rendered with     *)
(* every fetch successful.                                                 *)
(***************************************************************************)
C2_FetchFailureWritesNothing ==
    /\ \A k \in 1..Len(requests) :
         ~requests[k].ok =>
            /\ k = Len(requests)
            /\ pc = "aborted" /\ error = "HTTPError"
            /\ stack = <<>>
            /\ output = <<>> /\ writes = 0
    /\ (Len(requests) > 0 /\ ~requests[1].ok) => (Len(requests) = 1 /\ body_html = <<>>)
    /\ pc = "main" => (requests = <<>> /\ stack = <<>>)
    /\ writes > 0 =>
         /\ writes = 1 /\ pc = "done"
         /\ \A k \in 1..Len(requests) : requests[k].ok
         /\ output = FullHtml(Listing(document))
    /\ writes = 0 => output = <<>>

C2_Witness ==
    /\ pc = "aborted"
    /\ Len(requests) = 3
    /\ requests[3].endpoint = "images"
    /\ ~requests[3].ok
    /\ writes = 0

(***************************************************************************)
(* C3. The HTML-special characters of a TEXT node's characters are escaped *)
(* in the paragraph: no character token of the markup is a raw <, > or &,  *)
(* and a parser of the written body finds one element per node.            *)
(***************************************************************************)
Special == { "<", ">", "&" }
Letters == { "b", "H", "i" }
\* the tags a parser opens: the elements emitted, and every raw < that a
\* letter follows
ParsedTags(html) ==
    Cardinality({ i \in 1..Len(html) : html[i] \in OpenLits })
    + Cardinality({ i \in 1..(Len(html) - 1) :
                      /\ html[i] = Char("<")
                      /\ html[i + 1][1] = "char" /\ html[i + 1][2] \in Letters })
RawSpecial(html) ==
    \E i \in 1..Len(html) : html[i][1] = "char" /\ html[i][2] \in Special

C3_TextEscaped ==
    /\ \A k \in Emitted : ~RawSpecial(stack[k].html)
    /\ Finished => (~RawSpecial(body_html) /\ ParsedTags(body_html) = Len(Nodes))

(***************************************************************************)
(* C4. A tree with a node that lacks a required field (a box coordinate,   *)
(* the count of a first COLUMNS grid, the color of a first SOLID fill) is  *)
(* never rendered: no call of process_node on a subtree holding such a     *)
(* node reaches its return, and nothing is handed to generate_html or      *)
(* written.                                                                *)
(***************************************************************************)
C4_MissingFieldAborts ==
    /\ \A k \in Emitted :
         SomeNode(stack[k].node, LacksRequired) =>
            stack[k].i <= Len(Children(stack[k].node))
    /\ SomeNode(document, LacksRequired) =>
         (~Finished /\ body_html = <<>> /\ output = <<>>)

(***************************************************************************)
(* C5. The style of a TEXT node's paragraph never has a background-color   *)
(* declaration, whatever its fills; the element of any other node has one  *)
(* exactly when fills is non-empty and its first entry is SOLID.           *)
(***************************************************************************)
C5_Background ==
    /\ \A k \in Styled :
         TypeOf(stack[k].node) = "TEXT" => ~HasBackground(stack[k].css)
    /\ \A k \in Emitted :
         LET f == stack[k] IN
         IF TypeOf(f.node) = "TEXT"
         THEN ~HasBackground(OwnPart(f.html))
         ELSE HasBackground(OwnPart(f.html)) <=> FirstFillSolid(f.node)

C5_Witness ==
    /\ pc = "done"
    /\ TypeOf(document) = "TEXT"
    /\ FirstFillSolid(document)
    /\ "absoluteBoundingBox" \in DOMAIN document

(***************************************************************************)
(* C6. The style string holds the declarations of the applicable rule      *)
(* groups in the order position/size, auto-layout, constraints, grid,      *)
(* fill: every applicable group is there in full, no other group is, and   *)
(* the element carries that string, whatever the node's type.              *)
(***************************************************************************)
GroupOf(d) ==
    CASE d[2] \in {"position", "left", "top"} -> 1
      [] d[2] \in {"width", "height"} /\ d[3] # "100%" -> 1
      [] d[2] = "display" /\ d[3] = "flex" -> 2
      [] d[2] \in {"flex-direction", "gap", "padding", "align-items", "justify-content"} -> 2
      [] d[2] \in {"width", "height"} /\ d[3] = "100%" -> 3
      [] d[2] \in {"margin-left", "margin-right", "margin-top", "margin-bottom"} -> 3
      [] d[2] = "display" /\ d[3] = "grid" -> 4
      [] d[2] \in {"grid-template-columns", "column-gap"} -> 4
      [] d[2] = "background-color" -> 5
      [] OTHER -> 6

AxisSize(c) == IF c = "STRETCH" THEN 1 ELSE IF c = "CENTER" THEN 2 ELSE 0
\* the number of declarations a group contributes to a node's style
GroupSize(g, node) ==
    CASE g = 1 -> IF "absoluteBoundingBox" \in DOMAIN node THEN 5 ELSE 0
      [] g = 2 -> IF "layoutMode" \in DOMAIN node THEN 6 ELSE 0
      [] g = 3 -> AxisSize(Constraint(node, "horizontal"))
                  + AxisSize(Constraint(node, "vertical"))
      [] g = 4 -> IF FirstGridColumns(node) THEN 3 ELSE 0
      [] g = 5 -> IF TypeOf(node) # "TEXT" /\ FirstFillSolid(node) THEN 1 ELSE 0
      [] OTHER -> 0

C6_RuleOrder ==
    \A k \in Styled :
      LET f == stack[k]
          css == f.css
      IN  /\ \A i, j \in 1..Len(css) : i < j => GroupOf(css[i]) <= GroupOf(css[j])
          /\ \A g \in 1..6 :
               Cardinality({ i \in 1..Len(css) : GroupOf(css[i]) = g }) = GroupSize(g, f.node)
          /\ f.at = "children" =>
               SubSeq(Decls(OwnPart(f.html)), 1, Len(css)) = css

C6_Witness ==
    /\ pc = "done"
    /\ TypeOf(document) = "IMAGE"
    /\ \A g \in 1..5 : GroupSize(g, document) > 0
    /\ \E i, j \in 1..Len(output) :
         /\ i < j
         /\ output[i] = Decl("display", "flex")
         /\ output[j] = Decl("display", "grid")

(***************************************************************************)
(* C7. An IMAGE node whose id has no entry in a successful response of the *)
(* images endpoint gets an image element with an empty source, and the run *)
(* goes on: a run aborts only on a failed request or on a missing box      *)
(* field or fill color, and the written body has one empty source for      *)
(* each such response.                                                     *)
(***************************************************************************)
NoEntry(e) == e.endpoint = "images" /\ e.ok /\ e.ids \notin DOMAIN e.images
RequestFor(id) ==
    requests[CHOOSE k \in 1..Len(requests) :
                requests[k].endpoint = "images" /\ requests[k].ids = id]
Raises(node) == LacksBoxField(node) \/ LacksColor(node)

C7_EmptySourceIsNoError ==
    /\ \A k \in Emitted :
         LET f == stack[k] IN
         (TypeOf(f.node) = "IMAGE" /\ NoEntry(RequestFor(f.node["id"]))) =>
            OwnPart(f.html) = << Lit("<img src=\""), Val(""), Lit("\" style=\"") >>
                              \o f.css \o << Lit("\" />") >>
    /\ pc = "aborted" =>
         \/ error = "HTTPError" /\ ~requests[Len(requests)].ok
         \/ error = "KeyError" /\ SomeNode(document, Raises)
    /\ Finished =>
         Cardinality({ i \in 1..Len(body_html) : body_html[i] = Val("") })
         = Cardinality({ k \in 1..Len(requests) : NoEntry(requests[k]) })

C7_Witness ==
    /\ pc = "done"
    /\ TypeOf(document) = "IMAGE"
    /\ Len(Children(document)) = 2
    /\ NoEntry(requests[2])
    /\ requests[2].images # EmptyDict
    /\ Len(OpenTags(body_html)) = 3

(***************************************************************************)
(* C8. An unrecognized variation is no error and takes the default: a node *)
(* whose type is neither TEXT nor IMAGE (absent included) is an empty      *)
(* container with only the synthesized style, a first grid that is not     *)
(* COLUMNS gives no grid declaration, a constraint other than STRETCH or   *)
(* CENTER gives no constraint declaration, and a KeyError comes only from  *)
(* a missing box field or fill color.                                      *)
(***************************************************************************)
HasDecl(css, props) ==
    \E i \in 1..Len(css) : css[i][1] = "decl" /\ css[i][2] \in props
Known(c) == c \in {"STRETCH", "CENTER"}

C8_UnrecognizedFallsThrough ==
    /\ \A k \in Emitted :
         LET f == stack[k] IN
         TypeOf(f.node) \notin {"TEXT", "IMAGE"} =>
            OwnPart(f.html) = << Lit("<div style=\"") >> \o f.css \o << Lit("\"></div>") >>
    /\ \A k \in Styled :
         LET f == stack[k] IN
         /\ ~FirstGridColumns(f.node) =>
              ~HasDecl(f.css, {"grid-template-columns", "column-gap"})
              /\ Decl("display", "grid") \notin { f.css[i] : i \in 1..Len(f.css) }
         /\ ~Known(Constraint(f.node, "horizontal")) =>
              ~HasDecl(f.css, {"margin-left", "margin-right"})
              /\ Decl("width", "100%") \notin { f.css[i] : i \in 1..Len(f.css) }
         /\ ~Known(Constraint(f.node, "vertical")) =>
              ~HasDecl(f.css, {"margin-top", "margin-bottom"})
              /\ Decl("height", "100%") \notin { f.css[i] : i \in 1..Len(f.css) }
    /\ error = "KeyError" => SomeNode(document, Raises)

C8_Witness ==
    /\ pc = "done"
    /\ TypeOf(document) = "VECTOR"
    /\ "layoutGrids" \in DOMAIN document
    /\ Len(document["layoutGrids"]) > 0
    /\ ~FirstGridColumns(document)
    /\ Constraint(document, "horizontal") = "LEFT"
    /\ Constraint(document, "vertical") = "TOP"
    /\ "absoluteBoundingBox" \in DOMAIN document

(***************************************************************************)
(* C9. The style of a TEXT node's paragraph is the synthesized style, then *)
(* font-size (style.fontSize, 12 when absent), then color: the rgba string *)
(* of the first fill when it is SOLID, "black" otherwise, never empty.     *)
(***************************************************************************)
\* the rgba strings of the fills of the model, as Python prints them
RgbaOf(fill) ==
    CASE fill = Red -> "rgba(255,0,0,0.5)"
      [] fill = Black -> "rgba(0,0,0,1)"
      [] fill = Grey -> "rgba(178,127,25,1)"
      [] OTHER -> "?"
FontSizeOf(node) ==
    IF "style" \in DOMAIN node /\ "fontSize" \in DOMAIN node["style"]
    THEN node["style"]["fontSize"] ELSE 12

C9_TextStyle ==
    \A k \in Emitted :
      LET f == stack[k]
          color == IF FirstFillSolid(f.node) THEN RgbaOf(f.node["fills"][1]) ELSE "black"
      IN  TypeOf(f.node) = "TEXT" =>
            /\ SubSeq(f.html, 1, Len(f.css) + 4)
               = << Lit("<p style=\"") >> \o f.css
                 \o << Decl("font-size", Str(FontSizeOf(f.node)) \o "px"),
                       DeclT("color", color, ";"),
                       Lit("\">") >>
            /\ \A i \in 1..Len(f.html) :
                 (f.html[i][1] = "decl" /\ f.html[i][2] = "color") => f.html[i][3] # ""

C9_Witness ==
    /\ pc = "done"
    /\ TypeOf(document) = "TEXT"
    /\ "fills" \in DOMAIN document
    /\ Len(document["fills"]) = 2
    /\ ~FirstFillSolid(document)
    /\ DeclT("color", "black", ";") \in { output[i] : i \in 1..Len(output) }

(***************************************************************************)
(* C10. The images endpoint is called once for each IMAGE node, with that  *)
(* node's own id, in depth-first preorder, each call before the next node  *)
(* is rendered: the ids requested so far are the ids of the IMAGE nodes    *)
(* among the nodes rendered so far, in preorder, and all of them once the  *)
(* render has finished; no id is requested twice, so no fetch is retried.  *)
(***************************************************************************)
ImageIds(nodes) ==
    LET imgs == SelectSeq(nodes, LAMBDA n : TypeOf(n) = "IMAGE")
    IN  [j \in 1..Len(imgs) |-> imgs[j]["id"]]
RequestedIds ==
    LET rs == SelectSeq(requests, LAMBDA e : e.endpoint = "images")
    IN  [j \in 1..Len(rs) |-> rs[j].ids]
PositionOf(node) == CHOOSE j \in 1..Len(Nodes) : Nodes[j]["id"] = node["id"]
RECURSIVE SizeSum(_, _)
SizeSum(children, n) ==
    IF n = 0 THEN 0 ELSE Len(Preorder(children[n])) + SizeSum(children, n - 1)
\* the number of nodes whose element has been emitted
Rendered ==
    IF stack = <<>> THEN (IF Finished THEN Len(Nodes) ELSE 0)
    ELSE IF Top.at = "children"
         THEN PositionOf(Top.node) + SizeSum(Children(Top.node), Top.i - 1)
         ELSE PositionOf(Top.node) - 1

C10_OneFetchPerImage ==
    /\ pc \in {"render", "write", "done"} =>
         RequestedIds = ImageIds(SubSeq(Nodes, 1, Rendered))
    /\ \E n \in 0..Len(Nodes) : RequestedIds = ImageIds(SubSeq(Nodes, 1, n))
    /\ \A j, k \in 1..Len(RequestedIds) : j # k => RequestedIds[j] # RequestedIds[k]
    /\ Cardinality({ k \in 1..Len(requests) : requests[k].endpoint = "files" }) <= 1

C10_Witness ==
    /\ pc = "done"
    /\ Len(Nodes) = 3
    /\ TypeOf(Nodes[1]) = "IMAGE"
    /\ TypeOf(Nodes[2]) = "TEXT"
    /\ TypeOf(Nodes[3]) = "IMAGE"
    /\ RequestedIds = << "1", "3" >>
====
